---- MODULE Spec2Model ----
(***************************************************************************)
(* Model of src/integrity.go: the change-detection cycle (runCycle) and    *)
(* the diff generators (generateCSVDiff, generateTextDiff,                 *)
(* generatePDFDiff, generateImageDiff).                                    *)
(*                                                                         *)
(* Go strings are TLA+ strings; a strings.Builder is the string written so *)
(* far.  Loop indices are 0-based as in the source; sequences are indexed  *)
(* with i + 1.                                                             *)
(***************************************************************************)
EXTENDS Integers, Sequences, FiniteSets, TLC

VARIABLES
    \* generateCSVDiff
    csvPc, localCSV, remoteCSV, csvSt, csvOut,
    \* generateTextDiff
    txtPc, localText, remoteText, section, txtSt, txtOut,
    \* generateImageDiff
    imgPc, imgIn, imgOut,
    \* runCycle
    pc, names, filenames, idx, unifiedBuilder, shiftLog,
    history, differCalls, extractCalls, snapshots, logOpens, logSink, summaries

csvVars == <<csvPc, localCSV, remoteCSV, csvSt, csvOut>>
txtVars == <<txtPc, localText, remoteText, section, txtSt, txtOut>>
imgVars == <<imgPc, imgIn, imgOut>>
cycleVars == <<pc, names, filenames, idx, unifiedBuilder, shiftLog,
               history, differCalls, extractCalls, snapshots, logOpens, logSink, summaries>>
vars == <<csvVars, txtVars, imgVars, cycleVars>>

----------------------------------------------------------------------------
(* Program constants                                                       *)

maxDiffChanges == 10
maxDiffChars == 500
zeroHash == "0000000000000000000000000000000000000000000000000000000000000000"
baseURL == "https://raw.githubusercontent.com/dream-three/baseline/refs/heads/main/"
logFile == "shifts.log"
truncMarker == "... (truncated)"
\* U+2192 occupies three bytes in the source's UTF-8 string literals; len()
\* counts bytes, so the arrow is modelled by three one-byte characters.
arrow == "-->"

----------------------------------------------------------------------------
(* Bounds of the model                                                     *)

MaxRows == 2        \* rows of an exhaustively enumerated table
MaxExtra == 2       \* rows/lines beyond maxDiffChanges in the long inputs
MaxTextLen == 2     \* characters of an exhaustively enumerated text

----------------------------------------------------------------------------
(* Strings                                                                 *)

Max(a, b) == IF a > b THEN a ELSE b

CharAt(s, k) == SubSeq(s, k, k)

RECURSIVE Join(_, _)
Join(elems, sep) ==
    IF Len(elems) = 0 THEN ""
    ELSE IF Len(elems) = 1 THEN elems[1]
    ELSE elems[1] \o sep \o Join(Tail(elems), sep)

RECURSIVE Repeat(_, _)
Repeat(s, n) == IF n = 0 THEN "" ELSE s \o Repeat(s, n - 1)

Contains(s, sub) ==
    \E k \in 1..(Len(s) - Len(sub) + 1) : SubSeq(s, k, k + Len(sub) - 1) = sub

HasPrefix(s, p) == Len(s) >= Len(p) /\ SubSeq(s, 1, Len(p)) = p

HasSuffix(s, p) == Len(s) >= Len(p) /\ SubSeq(s, Len(s) - Len(p) + 1, Len(s)) = p

\* strings.Split(s, "\n"): the pieces between newlines, always at least one.
RECURSIVE Split(_)
Split(s) ==
    LET nl == {k \in 1..Len(s) : CharAt(s, k) = "\n"}
    IN  IF nl = {} THEN <<s>>
        ELSE LET p == CHOOSE k \in nl : \A m \in nl : k <= m
             IN  <<SubSeq(s, 1, p - 1)>> \o Split(SubSeq(s, p + 1, Len(s)))

IsSpace(c) == c \in {" ", "\t", "\n", "\r"}

\* strings.TrimSpace
TrimSpace(s) ==
    LET keep == {k \in 1..Len(s) : ~IsSpace(CharAt(s, k))}
    IN  IF keep = {} THEN ""
        ELSE LET lo == CHOOSE k \in keep : \A m \in keep : k <= m
                 hi == CHOOSE k \in keep : \A m \in keep : k >= m
             IN  SubSeq(s, lo, hi)

Itoa(n) == ToString(n)

----------------------------------------------------------------------------
(* generateCSVDiff                                                         *)

ParseOk(rows) == [ok |-> TRUE, rows |-> rows]
ParseErr(msg) == [ok |-> FALSE, err |-> msg]

csvHeader(ts, filename) == "[" \o ts \o "] Diff for " \o filename \o "\n"

csvTally(st) == st.addedCount + st.omittedCount + st.modifiedCount

csvMaxRows(l, r) == Max(Len(l), Len(r))

\* csvLoopCond with the cap tested one change too late
csvLoopCondOffByOne(st, l, r) == st.i < csvMaxRows(l, r) /\ csvTally(st) <= maxDiffChanges

\* the loop condition of the row loop
csvLoopCond(st, l, r) == st.i < csvMaxRows(l, r) /\ csvTally(st) < maxDiffChanges

FieldAt(row, j) == IF j < Len(row) THEN row[j + 1] ELSE ""

\* compareFields without the break: a line for every differing field
RECURSIVE compareFieldsNoBreak(_, _, _, _)
compareFieldsNoBreak(localRow, remoteRow, i, j) ==
    IF j >= Max(Len(localRow), Len(remoteRow)) THEN ""
    ELSE (IF FieldAt(localRow, j) # FieldAt(remoteRow, j)
          THEN "Modified field in row " \o Itoa(i + 1) \o ", col " \o Itoa(j + 1)
               \o ": '" \o FieldAt(localRow, j) \o "' " \o arrow \o " '"
               \o FieldAt(remoteRow, j) \o "'\n"
          ELSE "")
         \o compareFieldsNoBreak(localRow, remoteRow, i, j + 1)

\* the field loop: the text it writes for row i, from column j on
RECURSIVE compareFields(_, _, _, _)
compareFields(localRow, remoteRow, i, j) ==
    IF j >= Max(Len(localRow), Len(remoteRow)) THEN ""
    ELSE IF FieldAt(localRow, j) # FieldAt(remoteRow, j)
         THEN "Modified field in row " \o Itoa(i + 1) \o ", col " \o Itoa(j + 1)
              \o ": '" \o FieldAt(localRow, j) \o "' " \o arrow \o " '"
              \o FieldAt(remoteRow, j) \o "'\n"
         ELSE compareFields(localRow, remoteRow, i, j + 1)

\* one iteration of the row loop
csvRowStep(st, l, r) ==
    LET i == st.i
        localRow == IF i < Len(l) THEN l[i + 1] ELSE <<>>
        remoteRow == IF i < Len(r) THEN r[i + 1] ELSE <<>>
    IN  IF Len(localRow) = 0
        THEN [st EXCEPT !.i = i + 1, !.addedCount = @ + 1,
                        !.diff = @ \o "Added row " \o Itoa(i + 1) \o ": "
                                   \o Join(remoteRow, ",") \o "\n"]
        ELSE IF Len(remoteRow) = 0
        THEN [st EXCEPT !.i = i + 1, !.omittedCount = @ + 1,
                        !.diff = @ \o "Omitted row " \o Itoa(i + 1) \o ": "
                                   \o Join(localRow, ",") \o "\n"]
        ELSE LET line == compareFields(localRow, remoteRow, i, 0)
             IN  [st EXCEPT !.i = i + 1,
                            !.modifiedCount = IF line # "" THEN @ + 1 ELSE @,
                            !.diff = @ \o line]

csvStart(ts, filename) ==
    [i |-> 0, addedCount |-> 0, omittedCount |-> 0, modifiedCount |-> 0,
     diff |-> csvHeader(ts, filename)]

csvFallback == "No specific changes identified (full content mismatch)\n"

\* csvFinish without the fallback line
csvFinishNoFallback(st) == st.diff

\* after the loop: the fallback line, and diff.String()
csvFinish(st) == IF csvTally(st) = 0 THEN st.diff \o csvFallback ELSE st.diff

RECURSIVE csvLoop(_, _, _)
csvLoop(st, l, r) ==
    IF csvLoopCond(st, l, r) THEN csvLoop(csvRowStep(st, l, r), l, r) ELSE st

generateCSVDiff(localParse, remoteParse, ts, filename) ==
    IF ~localParse.ok
    THEN "[" \o ts \o "] CSV: " \o filename \o " | Error parsing local: " \o localParse.err
    ELSE IF ~remoteParse.ok
    THEN "[" \o ts \o "] CSV: " \o filename \o " | Error parsing remote: " \o remoteParse.err
    ELSE csvFinish(csvLoop(csvStart(ts, filename), localParse.rows, remoteParse.rows))

----------------------------------------------------------------------------
(* generateTextDiff                                                        *)

txtTally(st) == st.addedCount + st.omittedCount + st.modifiedCount

txtMaxLines(lt, rt) == Max(Len(Split(lt)), Len(Split(rt)))

\* the loop condition of the line loop
txtLoopCond(st, lt, rt) == st.i < txtMaxLines(lt, rt) /\ txtTally(st) < maxDiffChanges

\* LineAt without the TrimSpace
LineAtUntrimmed(text, i) ==
    LET lines == Split(text) IN IF i < Len(lines) THEN lines[i + 1] ELSE ""

LineAt(text, i) ==
    LET lines == Split(text) IN IF i < Len(lines) THEN TrimSpace(lines[i + 1]) ELSE ""

\* one iteration of the line loop
txtLineStep(st, lt, rt, sec) ==
    LET i == st.i
        localLine == LineAt(lt, i)
        remoteLine == LineAt(rt, i)
    IN  IF localLine = "" /\ remoteLine # ""
        THEN [st EXCEPT !.i = i + 1, !.addedCount = @ + 1,
                        !.diff = @ \o "Added " \o sec \o " line " \o Itoa(i + 1) \o ": "
                                   \o remoteLine \o "\n"]
        ELSE IF remoteLine = "" /\ localLine # ""
        THEN [st EXCEPT !.i = i + 1, !.omittedCount = @ + 1,
                        !.diff = @ \o "Omitted " \o sec \o " line " \o Itoa(i + 1) \o ": "
                                   \o localLine \o "\n"]
        ELSE IF localLine # remoteLine
        THEN [st EXCEPT !.i = i + 1, !.modifiedCount = @ + 1,
                        !.diff = @ \o "Modified " \o sec \o " line " \o Itoa(i + 1) \o ": '"
                                   \o localLine \o "' " \o arrow \o " '" \o remoteLine \o "'\n"]
        ELSE [st EXCEPT !.i = i + 1]

txtStart == [i |-> 0, addedCount |-> 0, omittedCount |-> 0, modifiedCount |-> 0, diff |-> ""]

txtFallback(sec) == "No " \o sec \o " changes identified\n"

\* after the loop: the fallback line, and diff.String()
txtFinish(st, sec) == IF txtTally(st) = 0 THEN st.diff \o txtFallback(sec) ELSE st.diff

RECURSIVE txtLoop(_, _, _, _)
txtLoop(st, lt, rt, sec) ==
    IF txtLoopCond(st, lt, rt) THEN txtLoop(txtLineStep(st, lt, rt, sec), lt, rt, sec) ELSE st

generateTextDiff(lt, rt, sec) == txtFinish(txtLoop(txtStart, lt, rt, sec), sec)

----------------------------------------------------------------------------
(* Digests                                                                 *)

\* sha256.Sum of a blob, hex encoded.  A blob is identified by its bytes
\* (bytes \in 1..15); the digest is injective on blobs, 64 hex characters
\* long and never all zero, as SHA-256 is taken to be.
HexDigit(n) == CharAt("123456789abcdef", n)
sha256Hex(b) == Repeat(HexDigit(b.bytes), 64)

\* sha256Hex of the unified builder's text: the digest is kept symbolic.
sha256HexOfText(text) == <<"sha256", text>>

\* fileHash(localPath): the digest, or "" with an error
FileOk(b) == [ok |-> TRUE, blob |-> b]
FileErr(msg) == [ok |-> FALSE, err |-> msg]
fileHash(file) == IF file.ok THEN sha256Hex(file.blob) ELSE ""

----------------------------------------------------------------------------
(* generatePDFDiff                                                         *)

generatePDFDiff(localFile, remoteData, ts, filename) ==
    "[" \o ts \o "] PDF Diff for " \o filename \o "\nFile Hash: Local=" \o fileHash(localFile)
    \o ", Remote=" \o sha256Hex(remoteData) \o "\n"

----------------------------------------------------------------------------
(* generateImageDiff                                                       *)

\* An extraction result is the Go pair (text, err); err = "" models nil.
Success(text) == [text |-> text, err |-> ""]
Failure(cause) == [text |-> "", err |-> cause]
IsNil(e) == e = ""

imgPreamble(localFile, remoteData, ts, filename) ==
    "[" \o ts \o "] Image Diff for " \o filename \o "\n"
    \o "File Hash: Local=" \o fileHash(localFile) \o ", Remote=" \o sha256Hex(remoteData) \o "\n"

exifSection(localExif, remoteExif, localExifErr, remoteExifErr) ==
    (IF ~IsNil(localExifErr) THEN "Local EXIF Error: " \o localExifErr \o "\n" ELSE "")
    \o (IF ~IsNil(remoteExifErr) THEN "Remote EXIF Error: " \o remoteExifErr \o "\n" ELSE "")
    \o (IF IsNil(localExifErr) /\ IsNil(remoteExifErr)
        THEN IF localExif # remoteExif
             THEN "EXIF Changed:\n" \o generateTextDiff(localExif, remoteExif, "EXIF")
             ELSE "EXIF Unchanged\n"
        ELSE IF IsNil(localExifErr) /\ ~IsNil(remoteExifErr)
        THEN "EXIF: Local present, remote extraction failed\nLocal EXIF:\n" \o localExif \o "\n"
        ELSE IF ~IsNil(localExifErr) /\ IsNil(remoteExifErr)
        THEN "EXIF: Remote added, local extraction failed\nRemote EXIF:\n" \o remoteExif \o "\n"
        ELSE "")

\* ocrSection whose "remote added" branch writes the local text
ocrSectionWrongSide(localOcr, remoteOcr, localOcrErr, remoteOcrErr) ==
    (IF ~IsNil(localOcrErr) THEN "Local OCR Error: " \o localOcrErr \o "\n" ELSE "")
    \o (IF ~IsNil(remoteOcrErr) THEN "Remote OCR Error: " \o remoteOcrErr \o "\n" ELSE "")
    \o (IF IsNil(localOcrErr) /\ IsNil(remoteOcrErr)
        THEN IF localOcr # remoteOcr
             THEN "OCR Text Changed:\n" \o generateTextDiff(localOcr, remoteOcr, "OCR")
             ELSE "OCR Text Unchanged\n"
        ELSE IF IsNil(localOcrErr) /\ ~IsNil(remoteOcrErr)
        THEN "OCR: Local present, remote extraction failed\nLocal OCR Text:\n" \o localOcr \o "\n"
        ELSE IF ~IsNil(localOcrErr) /\ IsNil(remoteOcrErr)
        THEN "OCR: Remote added, local extraction failed\nRemote OCR Text:\n" \o localOcr \o "\n"
        ELSE "")

ocrSection(localOcr, remoteOcr, localOcrErr, remoteOcrErr) ==
    (IF ~IsNil(localOcrErr) THEN "Local OCR Error: " \o localOcrErr \o "\n" ELSE "")
    \o (IF ~IsNil(remoteOcrErr) THEN "Remote OCR Error: " \o remoteOcrErr \o "\n" ELSE "")
    \o (IF IsNil(localOcrErr) /\ IsNil(remoteOcrErr)
        THEN IF localOcr # remoteOcr
             THEN "OCR Text Changed:\n" \o generateTextDiff(localOcr, remoteOcr, "OCR")
             ELSE "OCR Text Unchanged\n"
        ELSE IF IsNil(localOcrErr) /\ ~IsNil(remoteOcrErr)
        THEN "OCR: Local present, remote extraction failed\nLocal OCR Text:\n" \o localOcr \o "\n"
        ELSE IF ~IsNil(localOcrErr) /\ IsNil(remoteOcrErr)
        THEN "OCR: Remote added, local extraction failed\nRemote OCR Text:\n" \o remoteOcr \o "\n"
        ELSE "")

generateImageDiff(localFile, remoteData, localExif, remoteExif, localOcr, remoteOcr, ts, filename) ==
    imgPreamble(localFile, remoteData, ts, filename)
    \o exifSection(localExif.text, remoteExif.text, localExif.err, remoteExif.err)
    \o ocrSection(localOcr.text, remoteOcr.text, localOcr.err, remoteOcr.err)

----------------------------------------------------------------------------
(* Inputs of the diff generators                                           *)

\* time.Now().Format("Jan 02, 2006 - 03:04PM"): one instant
ts == "Nov 06, 2026 - 06:37AM"

\* encoding/csv returns records of at least one field, all with as many
\* fields as the first record; an empty file has no record.
Rows1 == {<<"a">>, <<"">>}
Rows2 == {<<"a", "b">>, <<"a", "x">>, <<"c", "d">>, <<"a", "">>}
SmallTables == UNION {[1..n -> R] : n \in 0..MaxRows, R \in {Rows1, Rows2}}
LongTables ==
    {[k \in 1..n |-> r] : n \in maxDiffChanges..(maxDiffChanges + MaxExtra),
                          r \in {<<"a">>, <<"a", "b">>, <<"a", "x">>}}
Tables == SmallTables \cup LongTables
ParseResults == {ParseOk(t) : t \in Tables} \cup {ParseErr("record on line 2: wrong number of fields")}

TextAlphabet == {"a", " ", "\n"}
RECURSIVE StringsUpTo(_)
StringsUpTo(n) ==
    IF n = 0 THEN {""}
    ELSE LET S == StringsUpTo(n - 1) IN S \cup {s \o c : s \in S, c \in TextAlphabet}
LongTexts ==
    {Repeat(u, n) : n \in maxDiffChanges..(maxDiffChanges + MaxExtra), u \in {"a\n", "aa \n"}}
Texts == StringsUpTo(MaxTextLen) \cup LongTexts
Sections == {"EXIF", "OCR"}

ExifOutcomes == {Success("GPS: 45.0\n"), Success("GPS: 46.0\nISO: 100\n"), Success(""),
                 Failure("exif: failed to find exif intro marker")}
OcrOutcomes == {Success("hello"), Success("hello\nworld"), Success(""),
                Failure("AVIF format not supported for OCR")}
Blobs == {[bytes |-> 1], [bytes |-> 2]}
LocalFiles == {FileOk(b) : b \in Blobs} \cup {FileErr("open: no such file or directory")}

CsvIdle == csvPc = "idle" /\ localCSV = ParseOk(<<>>) /\ remoteCSV = ParseOk(<<>>)
           /\ csvSt = csvStart(ts, "") /\ csvOut = ""
TxtIdle == txtPc = "idle" /\ localText = "" /\ remoteText = "" /\ section = ""
           /\ txtSt = txtStart /\ txtOut = ""
ImgIdle == imgPc = "idle" /\ imgIn = <<>> /\ imgOut = ""
CycleIdle == pc = "idle" /\ names = {} /\ filenames = <<>> /\ idx = 0 /\ unifiedBuilder = ""
             /\ shiftLog = <<>> /\ history = <<>> /\ differCalls = <<>> /\ extractCalls = <<>>
             /\ snapshots = <<>> /\ logOpens = <<>> /\ logSink = <<>> /\ summaries = <<>>

----------------------------------------------------------------------------
(* generateCSVDiff, statement by statement                                 *)

csvFile == "z.csv"

InitCSV == /\ csvPc = "start"
           /\ localCSV \in ParseResults
           /\ remoteCSV \in ParseResults
           /\ csvSt = csvStart(ts, csvFile)
           /\ csvOut = ""

CSVParseLocalFailed ==
    /\ csvPc = "start" /\ ~localCSV.ok
    /\ csvOut' = generateCSVDiff(localCSV, remoteCSV, ts, csvFile)
    /\ csvPc' = "done"
    /\ UNCHANGED <<localCSV, remoteCSV, csvSt, txtVars, imgVars, cycleVars>>

CSVParseRemoteFailed ==
    /\ csvPc = "start" /\ localCSV.ok /\ ~remoteCSV.ok
    /\ csvOut' = generateCSVDiff(localCSV, remoteCSV, ts, csvFile)
    /\ csvPc' = "done"
    /\ UNCHANGED <<localCSV, remoteCSV, csvSt, txtVars, imgVars, cycleVars>>

CSVBegin ==
    /\ csvPc = "start" /\ localCSV.ok /\ remoteCSV.ok
    /\ csvSt' = csvStart(ts, csvFile)
    /\ csvPc' = "loop"
    /\ UNCHANGED <<localCSV, remoteCSV, csvOut, txtVars, imgVars, cycleVars>>

CSVRow ==
    /\ csvPc = "loop" /\ csvLoopCond(csvSt, localCSV.rows, remoteCSV.rows)
    /\ csvSt' = csvRowStep(csvSt, localCSV.rows, remoteCSV.rows)
    /\ UNCHANGED <<csvPc, localCSV, remoteCSV, csvOut, txtVars, imgVars, cycleVars>>

CSVReturn ==
    /\ csvPc = "loop" /\ ~csvLoopCond(csvSt, localCSV.rows, remoteCSV.rows)
    /\ csvOut' = csvFinish(csvSt)
    /\ csvPc' = "done"
    /\ UNCHANGED <<localCSV, remoteCSV, csvSt, txtVars, imgVars, cycleVars>>

----------------------------------------------------------------------------
(* generateTextDiff, statement by statement                                *)

InitText == /\ txtPc = "loop"
            /\ localText \in Texts
            /\ remoteText \in Texts
            /\ section \in Sections
            /\ txtSt = txtStart
            /\ txtOut = ""

TextLine ==
    /\ txtPc = "loop" /\ txtLoopCond(txtSt, localText, remoteText)
    /\ txtSt' = txtLineStep(txtSt, localText, remoteText, section)
    /\ UNCHANGED <<txtPc, localText, remoteText, section, txtOut, csvVars, imgVars, cycleVars>>

TextReturn ==
    /\ txtPc = "loop" /\ ~txtLoopCond(txtSt, localText, remoteText)
    /\ txtOut' = txtFinish(txtSt, section)
    /\ txtPc' = "done"
    /\ UNCHANGED <<localText, remoteText, section, txtSt, csvVars, imgVars, cycleVars>>

----------------------------------------------------------------------------
(* generateImageDiff                                                       *)

imgFile == "my map.png"

InitImage ==
    /\ imgPc = "start"
    /\ imgIn \in [localFile : LocalFiles, remoteData : Blobs,
                  localExif : ExifOutcomes, remoteExif : ExifOutcomes,
                  localOcr : OcrOutcomes, remoteOcr : OcrOutcomes]
    /\ imgOut = ""

ImageDiff ==
    /\ imgPc = "start"
    /\ imgOut' = generateImageDiff(imgIn.localFile, imgIn.remoteData, imgIn.localExif,
                                   imgIn.remoteExif, imgIn.localOcr, imgIn.remoteOcr, ts, imgFile)
    /\ imgPc' = "done"
    /\ UNCHANGED <<imgIn, csvVars, txtVars, cycleVars>>

----------------------------------------------------------------------------
(* The diff generators, each run on its own inputs                         *)

InitDiff == \/ InitCSV /\ TxtIdle /\ ImgIdle /\ CycleIdle
            \/ CsvIdle /\ InitText /\ ImgIdle /\ CycleIdle
            \/ CsvIdle /\ TxtIdle /\ InitImage /\ CycleIdle

NextDiff == \/ CSVParseLocalFailed
            \/ CSVParseRemoteFailed
            \/ CSVBegin
            \/ CSVRow
            \/ CSVReturn
            \/ TextLine
            \/ TextReturn
            \/ ImageDiff

SpecDiff == InitDiff /\ [][NextDiff]_vars

----------------------------------------------------------------------------
(* runCycle: names, paths and URLs                                         *)

\* the characters of the model's file names, in byte order
AsciiOrder == " %.0123456789ABCDEFGHIJKLMNOPQRSTUVWXYZ_abcdefghijklmnopqrstuvwxyz"
Rank(c) == CHOOSE k \in 1..Len(AsciiOrder) : CharAt(AsciiOrder, k) = c

\* a < b for Go strings: bytewise lexicographic order
StrLess(a, b) ==
    \E k \in 1..(Len(b)) :
        /\ k <= Len(a) + 1
        /\ SubSeq(a, 1, k - 1) = SubSeq(b, 1, k - 1)
        /\ (k = Len(a) + 1 \/ Rank(CharAt(a, k)) < Rank(CharAt(b, k)))

Range(f) == {f[k] : k \in DOMAIN f}

\* sort.Strings, on names that are pairwise different
SortStrings(elems) ==
    [k \in 1..Len(elems) |->
        CHOOSE e \in Range(elems) : Cardinality({t \in Range(elems) : StrLess(t, e)}) = k - 1]

UpperCase == "ABCDEFGHIJKLMNOPQRSTUVWXYZ"
LowerCase == "abcdefghijklmnopqrstuvwxyz"
LowerChar(c) ==
    IF \E k \in 1..Len(UpperCase) : CharAt(UpperCase, k) = c
    THEN CharAt(LowerCase, CHOOSE k \in 1..Len(UpperCase) : CharAt(UpperCase, k) = c)
    ELSE c

\* strings.ToLower
RECURSIVE ToLower(_)
ToLower(s) == IF s = "" THEN "" ELSE LowerChar(CharAt(s, 1)) \o ToLower(SubSeq(s, 2, Len(s)))

\* filepath.Ext: the suffix beginning at the last dot, or ""
Ext(name) ==
    LET dots == {k \in 1..Len(name) : CharAt(name, k) = "."}
    IN  IF dots = {} THEN ""
        ELSE SubSeq(name, CHOOSE k \in dots : \A m \in dots : m <= k, Len(name))

\* url.PathEscape on the characters of the model's names
EscapeChar(c) == IF c = " " THEN "%20" ELSE IF c = "%" THEN "%25" ELSE c
RECURSIVE PathEscape(_)
PathEscape(s) == IF s = "" THEN "" ELSE EscapeChar(CharAt(s, 1)) \o PathEscape(SubSeq(s, 2, Len(s)))

\* strings.ReplaceAll(s, " ", "_")
SpaceToUnderscore(c) == IF c = " " THEN "_" ELSE c
RECURSIVE ReplaceSpaces(_)
ReplaceSpaces(s) ==
    IF s = "" THEN "" ELSE SpaceToUnderscore(CharAt(s, 1)) \o ReplaceSpaces(SubSeq(s, 2, Len(s)))

runningDir == "/srv/watch"
randomTimestamp == "18a4c2d9e7f01b3c-421337"

rawURL(originalFilename) == baseURL \o PathEscape(originalFilename) \o "?t=" \o randomTimestamp

changedPath(originalFilename) ==
    runningDir \o "/" \o originalFilename \o "_" \o ReplaceSpaces(ts) \o ".changed"

imageExts == {".jpg", ".jpeg", ".png", ".avif"}

IsCSV(filename) == ToLower(Ext(filename)) = ".csv"
IsPDF(filename) == ~IsCSV(filename) /\ ToLower(Ext(filename)) = ".pdf"
IsImage(filename) ==
    /\ ~IsCSV(filename) /\ ~IsPDF(filename)
    /\ ToLower(Ext(filename)) \in imageExts
    /\ Contains(ToLower(filename), "map")

RECURSIVE SetToSeq(_)
SetToSeq(S) == IF S = {} THEN <<>> ELSE LET e == CHOOSE e \in S : TRUE IN <<e>> \o SetToSeq(S \ {e})

\* the scan of the directory: csvFiles, pdfFiles, imageFiles, joined and sorted
scanFilenames(listing) ==
    LET csvFiles == SetToSeq({f \in listing : IsCSV(f)})
        pdfFiles == SetToSeq({f \in listing : IsPDF(f)})
        imageFiles == SetToSeq({f \in listing : IsImage(f)})
    IN  SortStrings(csvFiles \o pdfFiles \o imageFiles)

\* differFor without the .pdf branch
differForNoPDF(filename) ==
    IF ToLower(Ext(filename)) = ".csv" THEN "generateCSVDiff" ELSE "generateImageDiff"

\* the differ the drift branch calls for a file name
differFor(filename) ==
    LET ext == ToLower(Ext(filename))
    IN  IF ext = ".csv" THEN "generateCSVDiff"
        ELSE IF ext = ".pdf" THEN "generatePDFDiff"
        ELSE "generateImageDiff"

unavailableReport(originalFilename, status) ==
    "[" \o ts \o "] " \o originalFilename \o ": Remote unavailable (HTTP " \o Itoa(status)
    \o ") - potential deletion or rename (URL: " \o rawURL(originalFilename) \o ")\n"

\* the size bound applied to a diff before it joins the shift list
truncate(diffText) ==
    IF Len(diffText) > maxDiffChars
    THEN SubSeq(diffText, 1, maxDiffChars) \o truncMarker
    ELSE diffText

----------------------------------------------------------------------------
(* runCycle: inputs                                                        *)

\* the names a directory listing can hold besides "notes.txt", which it always holds
DirNames == {"z.csv", "b.PDF", "my map.png"}
BadStatuses == {404, 503}

LongField == Repeat("x", 60)
LongRemoteTable == [k \in 1..8 |-> <<LongField>>]
CycleLocalParses == {ParseOk(<<<<"a", "b">>>>), ParseErr("open: permission denied")}
CycleRemoteParses == {ParseOk(<<<<"a", "x">>>>), ParseOk(LongRemoteTable)}

\* extractImageData / extractImageDataFromBytes: (exifData, ocrText, exifErr, ocrErr),
\* as the pair of the local and the remote extraction of one item
Extraction(exif, ocr) == [exif |-> exif, ocr |-> ocr]
CycleExtractions ==
    {[local |-> Extraction(Success("GPS: 45.0\n"), Success("hello")),
      remote |-> Extraction(Success("GPS: 46.0\n"), Failure("tesseract: cannot read image"))],
     [local |-> Extraction(Failure("open: permission denied"), Success("")),
      remote |-> Extraction(Failure("exif: failed to find exif intro marker"), Success("hello\nworld"))]}

NoBody == [bytes |-> 0]

\* what one iteration did: the item, the branch taken, the values of status, body,
\* rawHash and localHash, and the length of the diff text before the size bound
Record(name, outcome, status, body, rawHash, localHash, diffLen) ==
    [name |-> name, outcome |-> outcome, status |-> status, body |-> body,
     rawHash |-> rawHash, localHash |-> localHash, diffLen |-> diffLen]

----------------------------------------------------------------------------
(* runCycle                                                                *)

Init == /\ CsvIdle /\ TxtIdle /\ ImgIdle
        /\ pc = "scan"
        /\ names \in {S \cup {"notes.txt"} : S \in SUBSET DirNames}
        /\ filenames = <<>>
        /\ idx = 0
        /\ unifiedBuilder = ""
        /\ shiftLog = <<>>
        /\ history = <<>>
        /\ differCalls = <<>>
        /\ extractCalls = <<>>
        /\ snapshots = <<>>
        /\ logOpens = <<>>
        /\ logSink = <<>>
        /\ summaries = <<>>

diffVars == <<csvVars, txtVars, imgVars>>
effectVars == <<differCalls, extractCalls, snapshots>>
sinkVars == <<logOpens, logSink, summaries>>

\* os.Open(runningDir) or dir.Readdirnames fails: the cycle returns
ScanFailed ==
    /\ pc = "scan"
    /\ pc' = "aborted"
    /\ UNCHANGED <<names, filenames, idx, unifiedBuilder, shiftLog, history,
                   effectVars, sinkVars, diffVars>>

Scan ==
    /\ pc = "scan"
    /\ filenames' = scanFilenames(names)
    /\ pc' = "loop"
    /\ UNCHANGED <<names, idx, unifiedBuilder, shiftLog, history,
                   effectVars, sinkVars, diffVars>>

InLoop == pc = "loop" /\ idx < Len(filenames)
originalFilename == filenames[idx + 1]

\* the `continue` of an iteration that appends nothing
skipItem(outcome, status, body, rawHash) ==
    /\ history' = Append(history, Record(originalFilename, outcome, status, body, rawHash, "", 0))
    /\ idx' = idx + 1
    /\ UNCHANGED <<pc, names, filenames, unifiedBuilder, shiftLog,
                   effectVars, sinkVars, diffVars>>

ItemRequestFailed == InLoop /\ skipItem("request failed", 0, NoBody, zeroHash)

ItemFetchFailed == InLoop /\ skipItem("fetch failed", 0, NoBody, zeroHash)

\* ItemUnavailable without its continue: the iteration goes on to save the body
ItemUnavailableNoContinue ==
    /\ pc = "loop" /\ idx < Len(filenames)
    /\ \E status \in BadStatuses :
          /\ shiftLog' = Append(shiftLog, unavailableReport(filenames[idx + 1], status))
          /\ history' = Append(history, Record(filenames[idx + 1], "unavailable", status,
                                                NoBody, zeroHash, "", 0))
    /\ snapshots' = Append(snapshots, [name |-> filenames[idx + 1],
                                       path |-> changedPath(filenames[idx + 1]),
                                       data |-> NoBody, saved |-> TRUE])
    /\ idx' = idx + 1
    /\ UNCHANGED <<pc, names, filenames, unifiedBuilder, differCalls, extractCalls,
                   logOpens, logSink, summaries, csvVars, txtVars, imgVars>>

ItemUnavailable ==
    /\ InLoop
    /\ \E status \in BadStatuses :
          /\ shiftLog' = Append(shiftLog, unavailableReport(originalFilename, status))
          /\ history' = Append(history, Record(originalFilename, "unavailable", status,
                                                NoBody, zeroHash, "", 0))
    /\ idx' = idx + 1
    /\ UNCHANGED <<pc, names, filenames, unifiedBuilder, effectVars, sinkVars, diffVars>>

ItemReadFailed == InLoop /\ skipItem("read failed", 200, NoBody, zeroHash)

ItemLocalHashFailed ==
    InLoop /\ \E body \in Blobs : skipItem("local hash failed", 200, body, sha256Hex(body))

ItemNoChange ==
    /\ InLoop
    /\ \E body \in Blobs :
          LET rawHash == sha256Hex(body)
              localHash == fileHash(FileOk(body))
          IN  /\ rawHash = localHash
              /\ unifiedBuilder' = unifiedBuilder \o rawHash
              /\ history' = Append(history, Record(originalFilename, "no change", 200,
                                                    body, rawHash, localHash, 0))
    /\ idx' = idx + 1
    /\ UNCHANGED <<pc, names, filenames, shiftLog, effectVars, sinkVars, diffVars>>

\* the diff texts the drift branch can obtain for an item, with the extractions made
driftDiffs(filename, local, body) ==
    IF differFor(filename) = "generateCSVDiff"
    THEN {[text |-> generateCSVDiff(lp, rp, ts, filename), extracts |-> <<>>] :
            lp \in CycleLocalParses, rp \in CycleRemoteParses}
    ELSE IF differFor(filename) = "generatePDFDiff"
    THEN {[text |-> generatePDFDiff(again, body, ts, filename), extracts |-> <<>>] :
            again \in {FileOk(local), FileErr("open: permission denied")}}
    ELSE {[text |-> generateImageDiff(again, body, x.local.exif, x.remote.exif,
                                      x.local.ocr, x.remote.ocr, ts, filename),
           extracts |-> <<[name |-> filename, side |-> "local"],
                          [name |-> filename, side |-> "remote"]>>] :
            again \in {FileOk(local), FileErr("open: permission denied")},
            x \in CycleExtractions}

ItemDrift ==
    /\ InLoop
    /\ \E body \in Blobs, local \in Blobs, saved \in BOOLEAN :
          LET rawHash == sha256Hex(body)
              localHash == fileHash(FileOk(local))
          IN  /\ rawHash # localHash
              /\ \E d \in driftDiffs(originalFilename, local, body) :
                    /\ differCalls' = Append(differCalls, [name |-> originalFilename,
                                                           differ |-> differFor(originalFilename)])
                    /\ extractCalls' = extractCalls \o d.extracts
                    /\ shiftLog' = Append(shiftLog, truncate(d.text))
                    /\ snapshots' = Append(snapshots, [name |-> originalFilename,
                                                       path |-> changedPath(originalFilename),
                                                       data |-> body, saved |-> saved])
                    /\ unifiedBuilder' = unifiedBuilder \o rawHash
                    /\ history' = Append(history, Record(originalFilename, "drift", 200,
                                                          body, rawHash, localHash, Len(d.text)))
    /\ idx' = idx + 1
    /\ UNCHANGED <<pc, names, filenames, sinkVars, diffVars>>

LoopDone == pc = "loop" /\ idx >= Len(filenames)

LogSkip ==
    /\ LoopDone /\ Len(shiftLog) = 0
    /\ pc' = "summary"
    /\ UNCHANGED <<names, filenames, idx, unifiedBuilder, shiftLog, history,
                   effectVars, sinkVars, diffVars>>

\* LogOpenFailed returning from the cycle
LogOpenFailedReturns ==
    /\ pc = "loop" /\ idx >= Len(filenames) /\ Len(shiftLog) > 0
    /\ logOpens' = Append(logOpens, FALSE)
    /\ pc' = "done"
    /\ UNCHANGED <<names, filenames, idx, unifiedBuilder, shiftLog, history,
                   differCalls, extractCalls, snapshots, logSink, summaries,
                   csvVars, txtVars, imgVars>>

LogOpenFailed ==
    /\ LoopDone /\ Len(shiftLog) > 0
    /\ logOpens' = Append(logOpens, FALSE)
    /\ pc' = "summary"
    /\ UNCHANGED <<names, filenames, idx, unifiedBuilder, shiftLog, history,
                   effectVars, logSink, summaries, diffVars>>

\* LogWrite whose loop starts at the second report
LogWriteSkipsFirst ==
    /\ pc = "loop" /\ idx >= Len(filenames) /\ Len(shiftLog) > 0
    /\ logOpens' = Append(logOpens, TRUE)
    /\ logSink' = logSink \o [k \in 1..(Len(shiftLog) - 1) |-> shiftLog[k + 1] \o "\n"]
    /\ pc' = "summary"
    /\ UNCHANGED <<names, filenames, idx, unifiedBuilder, shiftLog, history,
                   differCalls, extractCalls, snapshots, summaries,
                   csvVars, txtVars, imgVars>>

LogWrite ==
    /\ LoopDone /\ Len(shiftLog) > 0
    /\ logOpens' = Append(logOpens, TRUE)
    /\ logSink' = logSink \o [k \in 1..Len(shiftLog) |-> shiftLog[k] \o "\n"]
    /\ pc' = "summary"
    /\ UNCHANGED <<names, filenames, idx, unifiedBuilder, shiftLog, history,
                   effectVars, summaries, diffVars>>

Summary ==
    /\ pc = "summary"
    /\ summaries' = Append(summaries, sha256HexOfText(unifiedBuilder))
    /\ pc' = "done"
    /\ UNCHANGED <<names, filenames, idx, unifiedBuilder, shiftLog, history,
                   effectVars, logOpens, logSink, diffVars>>

Next == \/ ScanFailed
        \/ Scan
        \/ ItemRequestFailed
        \/ ItemFetchFailed
        \/ ItemUnavailable
        \/ ItemReadFailed
        \/ ItemLocalHashFailed
        \/ ItemNoChange
        \/ ItemDrift
        \/ LogSkip
        \/ LogOpenFailed
        \/ LogWrite
        \/ Summary

Spec == Init /\ [][Next]_vars

\* the cycle is one sequential function call: a statement that can run does run
FairSpec == Spec /\ WF_vars(Next)

----------------------------------------------------------------------------
(* Properties of runCycle                                                  *)

Last(q) == q[Len(q)]

\* the reports of the shift list that name an item
ReportsFor(name) == {k \in 1..Len(shiftLog) : Contains(shiftLog[k], name)}

\* C1: every report appended to the cycle's shift list is at most 500
\* characters long in total, truncation marker included, and a report whose
\* untruncated text was longer than 500 characters carries the marker.
C1_TruncationInvariant ==
    /\ \A k \in 1..Len(shiftLog) : Len(shiftLog[k]) <= maxDiffChars
    /\ \A h \in Range(history) :
          h.diffLen > maxDiffChars =>
              \E k \in ReportsFor(h.name) : HasSuffix(shiftLog[k], "... (truncated)")

TransportErrors == {"request failed", "fetch failed", "unavailable", "read failed"}

\* the fingerprint an item contributes to the cycle summary: the all-zero
\* sentinel after a transport error, else the fingerprint of the remote bytes
ItemFingerprint(h) == IF h.outcome \in TransportErrors THEN zeroHash ELSE sha256Hex(h.body)

RECURSIVE ConcatFingerprints(_)
ConcatFingerprints(hs) ==
    IF hs = <<>> THEN "" ELSE ItemFingerprint(Head(hs)) \o ConcatFingerprints(Tail(hs))

\* C2: at the end of a cycle over n items, the text whose fingerprint is the
\* cycle-level fingerprint is the concatenation of exactly n per-item
\* fingerprints in sorted item order, the zero sentinel for a failed fetch.
C2_CycleSummary ==
    pc = "done" =>
        /\ Len(history) = Len(filenames)
        /\ \A k \in 1..Len(filenames) : history[k].name = filenames[k]
        /\ Len(unifiedBuilder) = 64 * Len(filenames)
        /\ unifiedBuilder = ConcatFingerprints(history)
        /\ summaries = <<sha256HexOfText(ConcatFingerprints(history))>>

\* a step that is one iteration of the item loop
ItemStep == Len(history') = Len(history) + 1

\* C7: when the fetch of an item returns a non-200 status, the iteration
\* appends exactly one "remote unavailable - potential deletion or rename"
\* report for the item, calls no differ and no extraction, writes no
\* snapshot, and moves to the next item.
C7_RemoteUnavailable ==
    [][(ItemStep /\ Last(history').status \notin {0, 200}) =>
          LET h == Last(history')
          IN  /\ h.name = filenames[idx + 1]
              /\ Len(shiftLog') = Len(shiftLog) + 1
              /\ SubSeq(shiftLog', 1, Len(shiftLog)) = shiftLog
              /\ Contains(Last(shiftLog'), "] " \o h.name \o ": Remote unavailable (HTTP "
                                           \o ToString(h.status) \o ")")
              /\ Contains(Last(shiftLog'), " - potential deletion or rename")
              /\ differCalls' = differCalls
              /\ extractCalls' = extractCalls
              /\ snapshots' = snapshots
              /\ idx' = idx + 1
              /\ pc' = "loop"]_vars

C7_Witness ==
    /\ pc = "loop" /\ idx = 1 /\ Len(filenames) = 3
    /\ history[1].outcome = "unavailable" /\ history[1].status = 404
    /\ Len(shiftLog) = 1 /\ snapshots = <<>> /\ differCalls = <<>>

\* the differ of an item's category
CategoryDiffer(name) ==
    IF HasSuffix(ToLower(name), ".csv") THEN "generateCSVDiff"
    ELSE IF HasSuffix(ToLower(name), ".pdf") THEN "generatePDFDiff"
    ELSE "generateImageDiff"

\* C8: for an item whose remote fetch and local read both succeed, equal
\* fingerprints call no differ, append no report and write no snapshot;
\* different fingerprints call exactly the differ of the item's category,
\* append exactly one report and request a snapshot of the remote bytes
\* under the original name plus a timestamp suffix.
C8_DriftGating ==
    [][(ItemStep /\ Last(history').status = 200 /\ Last(history').localHash # "") =>
          LET h == Last(history')
          IN  /\ h.name = filenames[idx + 1]
              /\ h.rawHash = sha256Hex(h.body)
              /\ h.rawHash = h.localHash =>
                    /\ differCalls' = differCalls
                    /\ extractCalls' = extractCalls
                    /\ shiftLog' = shiftLog
                    /\ snapshots' = snapshots
              /\ h.rawHash # h.localHash =>
                    /\ differCalls' = Append(differCalls,
                                             [name |-> h.name, differ |-> CategoryDiffer(h.name)])
                    /\ Len(shiftLog') = Len(shiftLog) + 1
                    /\ SubSeq(shiftLog', 1, Len(shiftLog)) = shiftLog
                    /\ Contains(Last(shiftLog'), h.name)
                    /\ Len(snapshots') = Len(snapshots) + 1
                    /\ SubSeq(snapshots', 1, Len(snapshots)) = snapshots
                    /\ Last(snapshots').data = h.body
                    /\ HasPrefix(Last(snapshots').path, runningDir \o "/" \o h.name \o "_")
                    /\ Len(Last(snapshots').path) > Len(runningDir \o "/" \o h.name \o "_")]_vars

C8_Witness ==
    /\ Len(history) = 2
    /\ history[1].outcome = "no change" /\ history[2].outcome = "drift"
    /\ Len(shiftLog) = 1 /\ Len(snapshots) = 1 /\ Len(differCalls) = 1
    /\ differCalls[1].differ = "generateImageDiff"

\* C9: once the sorted item list is built, whatever the outcome of each item,
\* every item is attempted exactly once, an iteration only ever moves on to
\* the next item, and the cycle eventually emits exactly one cycle summary,
\* also when the log cannot be opened.
C9_CycleCompletion ==
    /\ [][ItemStep => /\ Last(history').name = filenames[idx + 1]
                      /\ idx' = idx + 1
                      /\ pc' = "loop"]_vars
    /\ [](Len(summaries) <= 1)
    /\ [](pc = "done" => /\ Len(summaries) = 1
                         /\ Len(history) = Len(filenames)
                         /\ \A k \in 1..Len(filenames) : history[k].name = filenames[k])
    /\ (pc = "loop") ~> (pc = "done")

C9_Witness ==
    /\ pc = "done" /\ Len(summaries) = 1
    /\ Len(filenames) = 3
    /\ logOpens = <<FALSE>>
    /\ history[1].outcome = "local hash failed"
    /\ history[2].outcome = "drift" /\ ~snapshots[1].saved
    /\ history[3].outcome = "read failed"

\* an iteration that returned a non-success status or detected drift
Reported(h) ==
    \/ h.status \notin {0, 200}
    \/ h.status = 200 /\ h.localHash # "" /\ h.rawHash # h.localHash

\* C11: no report is written to the log before the last item has been
\* processed; after the item loop, if the log opens, the reports are written
\* exactly once each, in the order their items were processed (sorted item
\* name order), as many as there are items with a non-success status or with
\* drift; if there is no such item the log is not opened at all.
C11_LogHandOff ==
    LET reported == SelectSeq(history, Reported)
    IN  /\ (pc \in {"scan", "loop", "aborted"} \/ Len(history) < Len(filenames)) =>
              logOpens = <<>> /\ logSink = <<>>
        /\ pc \in {"summary", "done"} =>
              /\ Len(history) = Len(filenames)
              /\ reported = <<>> => logOpens = <<>> /\ logSink = <<>>
              /\ reported # <<>> => Len(logOpens) = 1
              /\ logOpens = <<FALSE>> => logSink = <<>>
              /\ logOpens = <<TRUE>> =>
                    /\ Len(logSink) = Len(reported)
                    /\ \A k \in 1..Len(reported) :
                          /\ Contains(logSink[k], reported[k].name)
                          /\ HasPrefix(logSink[k], shiftLog[k])
                          /\ reported[k].status # 200 =>
                                Contains(logSink[k], "Remote unavailable (HTTP "
                                                     \o ToString(reported[k].status) \o ")")
                    /\ \A k \in 1..(Len(reported) - 1) :
                          StrLess(reported[k].name, reported[k + 1].name)

C11_Witness ==
    /\ pc = "done"
    /\ Len(filenames) = 3
    /\ history[1].outcome = "unavailable"
    /\ history[2].outcome = "no change"
    /\ history[3].outcome = "drift"
    /\ logOpens = <<TRUE>>
    /\ Len(logSink) = 2
    /\ Contains(logSink[1], "b.PDF: Remote unavailable")
    /\ Contains(logSink[2], "Diff for z.csv")

----------------------------------------------------------------------------
(* Properties of the diff generators                                       *)

Lines(text) == Split(text)

IsChangeLine(line) ==
    HasPrefix(line, "Added ") \/ HasPrefix(line, "Omitted ") \/ HasPrefix(line, "Modified ")

\* the number of Added, Omitted and Modified lines of a report
ChangeLines(text) ==
    LET ls == Lines(text) IN Cardinality({k \in DOMAIN ls : IsChangeLine(ls[k])})

LastChangeLine(text) ==
    LET ls == Lines(text)
        at == {k \in DOMAIN ls : IsChangeLine(ls[k])}
    IN  ls[CHOOSE k \in at : \A m \in at : m <= k]

IsFallbackLine(line) == HasPrefix(line, "No ") /\ Contains(line, "changes identified")

CsvRunning == csvPc \in {"loop", "done"} /\ localCSV.ok /\ remoteCSV.ok
CsvReturned == csvPc = "done" /\ localCSV.ok /\ remoteCSV.ok
TxtRunning == txtPc \in {"loop", "done"}
TxtReturned == txtPc = "done"

\* C3: at every step of the comparison loops of generateCSVDiff and
\* generateTextDiff and in the final report, at most 10 Added, Omitted and
\* Modified lines are emitted; once the tally is 10 no further row or line
\* is examined (the last line emitted is that of the last index examined)
\* and the report holds no other message.
C3_CapInvariant ==
    /\ CsvRunning =>
          LET n == ChangeLines(csvSt.diff)
          IN  /\ n = csvTally(csvSt)
              /\ n <= 10
              /\ n = 10 =>
                    \/ Contains(LastChangeLine(csvSt.diff), " row " \o ToString(csvSt.i) \o ":")
                    \/ Contains(LastChangeLine(csvSt.diff), " row " \o ToString(csvSt.i) \o ",")
    /\ CsvReturned =>
          LET n == ChangeLines(csvOut)
          IN  /\ n <= 10
              /\ n = 10 => csvOut = csvSt.diff /\ Len(Lines(csvOut)) = 12
    /\ TxtRunning =>
          LET n == ChangeLines(txtSt.diff)
          IN  /\ n = txtTally(txtSt)
              /\ n <= 10
              /\ n = 10 =>
                    Contains(LastChangeLine(txtSt.diff), " line " \o ToString(txtSt.i) \o ":")
    /\ TxtReturned =>
          LET n == ChangeLines(txtOut)
          IN  /\ n <= 10
              /\ n = 10 => txtOut = txtSt.diff /\ Len(Lines(txtOut)) = 11

C3_Witness ==
    /\ CsvReturned
    /\ ChangeLines(csvOut) = 10
    /\ csvSt.i = 10
    /\ Len(localCSV.rows) > 10 /\ Len(remoteCSV.rows) > 10

\* C4: diffing a table or a text against itself gives a report with no
\* Added, Omitted or Modified line whose only content line is the fallback
\* line; a report holds the fallback line exactly when its tally is zero,
\* so it is never empty.
C4_ReflexiveFallback ==
    /\ CsvReturned =>
          LET ls == Lines(csvOut)
              n == ChangeLines(csvOut)
          IN  /\ csvOut # ""
              /\ (\E k \in DOMAIN ls : IsFallbackLine(ls[k])) <=> n = 0
              /\ n = 0 <=> csvTally(csvSt) = 0
              /\ localCSV.rows = remoteCSV.rows =>
                    /\ n = 0
                    /\ Len(ls) = 3 /\ IsFallbackLine(ls[2]) /\ ls[3] = ""
    /\ TxtReturned =>
          LET ls == Lines(txtOut)
              n == ChangeLines(txtOut)
          IN  /\ txtOut # ""
              /\ (\E k \in DOMAIN ls : IsFallbackLine(ls[k])) <=> n = 0
              /\ n = 0 <=> txtTally(txtSt) = 0
              /\ localText = remoteText =>
                    /\ n = 0
                    /\ Len(ls) = 2 /\ IsFallbackLine(ls[1]) /\ ls[2] = ""
                    /\ Contains(ls[1], section)

C4_Witness ==
    /\ CsvReturned
    /\ localCSV.rows = remoteCSV.rows /\ Len(localCSV.rows) = 2
    /\ csvOut = "[" \o ts \o "] Diff for z.csv\nNo specific changes identified (full content mismatch)\n"

\* the field of a row at a 0-based position, a missing field being empty
Field(row, j) == IF j + 1 \in DOMAIN row THEN row[j + 1] ELSE ""

\* the columns (0-based) at which two rows differ
DiffCols(lr, rr) == {j \in 0..(Max(Len(lr), Len(rr)) - 1) : Field(lr, j) # Field(rr, j)}

\* the line row i (0-based) is to produce
RowLine(l, r, i) ==
    IF i + 1 \notin DOMAIN l
    THEN "Added row " \o ToString(i + 1) \o ": " \o Join(r[i + 1], ",") \o "\n"
    ELSE IF i + 1 \notin DOMAIN r
    THEN "Omitted row " \o ToString(i + 1) \o ": " \o Join(l[i + 1], ",") \o "\n"
    ELSE IF DiffCols(l[i + 1], r[i + 1]) = {} THEN ""
    ELSE LET j == CHOOSE c \in DiffCols(l[i + 1], r[i + 1]) :
                      \A d \in DiffCols(l[i + 1], r[i + 1]) : c <= d
         IN  "Modified field in row " \o ToString(i + 1) \o ", col " \o ToString(j + 1) \o ": '"
             \o Field(l[i + 1], j) \o "' " \o arrow \o " '" \o Field(r[i + 1], j) \o "'\n"

RECURSIVE RowLines(_, _, _)
RowLines(l, r, n) == IF n = 0 THEN "" ELSE RowLines(l, r, n - 1) \o RowLine(l, r, n - 1)

\* C5: for every row index i examined, generateCSVDiff emits at most one
\* line, numbered i+1: Added with the remote row when local has no row i,
\* Omitted with the local row when remote has no row i, else one Modified
\* line for the lowest differing column, and nothing for equal rows.
C5_RowResult ==
    CsvRunning =>
        /\ csvSt.diff = "[" \o ts \o "] Diff for " \o csvFile \o "\n"
                        \o RowLines(localCSV.rows, remoteCSV.rows, csvSt.i)
        /\ ChangeLines(csvSt.diff) <= csvSt.i

C5_Witness ==
    /\ CsvReturned
    /\ localCSV.rows = <<<<"a", "b">>, <<"c", "d">>>>
    /\ remoteCSV.rows = <<<<"a", "x">>, <<"c", "d">>>>
    /\ csvSt.i = 2
    /\ csvOut = "[" \o ts \o "] Diff for z.csv\nModified field in row 1, col 2: 'b' " \o arrow \o " 'x'\n"

\* the section the policy table prescribes for one channel
PolicySection(l, r, title, short, long) ==
    IF l.err = "" /\ r.err = ""
    THEN IF l.text = r.text THEN title \o " Unchanged\n"
         ELSE title \o " Changed:\n" \o generateTextDiff(l.text, r.text, short)
    ELSE IF l.err = ""
    THEN "Remote " \o short \o " Error: " \o r.err \o "\n"
         \o short \o ": Local present, remote extraction failed\nLocal " \o long \o ":\n"
         \o l.text \o "\n"
    ELSE IF r.err = ""
    THEN "Local " \o short \o " Error: " \o l.err \o "\n"
         \o short \o ": Remote added, local extraction failed\nRemote " \o long \o ":\n"
         \o r.text \o "\n"
    ELSE "Local " \o short \o " Error: " \o l.err \o "\n"
         \o "Remote " \o short \o " Error: " \o r.err \o "\n"

\* C6: for each channel independently and for each of the four combinations
\* of local and remote outcome, generateImageDiff emits the non-empty
\* section of the policy table, whatever the other channel's outcomes.
C6_FourWay ==
    imgPc = "done" =>
        LET exif == PolicySection(imgIn.localExif, imgIn.remoteExif, "EXIF", "EXIF", "EXIF")
            ocr == PolicySection(imgIn.localOcr, imgIn.remoteOcr, "OCR Text", "OCR", "OCR Text")
        IN  /\ exif # "" /\ ocr # ""
            /\ HasPrefix(imgOut, "[" \o ts \o "] Image Diff for " \o imgFile \o "\nFile Hash: Local=")
            /\ HasSuffix(imgOut, "\n" \o exif \o ocr)
            /\ Len(Lines(imgOut)) = 2 + Len(Lines(exif \o ocr))

C6_Witness ==
    /\ imgPc = "done"
    /\ imgIn.localExif = Success("GPS: 45.0\n")
    /\ imgIn.remoteExif.err # ""
    /\ imgIn.localOcr.err # "" /\ imgIn.remoteOcr = Success("hello\nworld")
    /\ Contains(imgOut, "Local present, remote extraction failed")
    /\ Contains(imgOut, "GPS: 45.0")
    /\ Contains(imgOut, "OCR: Remote added, local extraction failed")

\* line i (0-based) of the lines of a text, trimmed; empty past the end
TrimmedLine(ls, i) == IF i + 1 \in DOMAIN ls THEN TrimSpace(ls[i + 1]) ELSE ""

\* the line that line index i (0-based) is to produce
TextLineFor(ll, rl, label, i) ==
    LET a == TrimmedLine(ll, i)
        b == TrimmedLine(rl, i)
    IN  IF a = b THEN ""
        ELSE IF a = ""
        THEN "Added " \o label \o " line " \o ToString(i + 1) \o ": " \o b \o "\n"
        ELSE IF b = ""
        THEN "Omitted " \o label \o " line " \o ToString(i + 1) \o ": " \o a \o "\n"
        ELSE "Modified " \o label \o " line " \o ToString(i + 1) \o ": '" \o a \o "' "
             \o arrow \o " '" \o b \o "'\n"

RECURSIVE TextLines(_, _, _, _)
TextLines(ll, rl, label, n) ==
    IF n = 0 THEN "" ELSE TextLines(ll, rl, label, n - 1) \o TextLineFor(ll, rl, label, n - 1)

\* C10: for every line index i examined, generateTextDiff emits at most one
\* line, numbered i+1 and carrying the label: Added when the trimmed local
\* line is empty and the remote is not, Omitted when the trimmed remote line
\* is empty and the local is not, Modified when both are non-empty and
\* unequal, nothing when the trimmed lines are equal.
C10_LineResult ==
    TxtRunning =>
        /\ txtSt.diff = TextLines(Lines(localText), Lines(remoteText), section, txtSt.i)
        /\ ChangeLines(txtSt.diff) <= txtSt.i

C10_Witness ==
    /\ TxtReturned
    /\ localText = "\na" /\ remoteText = "a " /\ section = "OCR"
    /\ txtOut = "Added OCR line 1: a\nOmitted OCR line 2: a\n"

====
